---- MODULE Spec2Model ----
(***************************************************************************)
(* Zoom's Webinar Setting Updater (src/app.py).                            *)
(*                                                                         *)
(* One run of the command-line program: the argument parser has accepted   *)
(* an operation name, the configuration path either exists or not, the     *)
(* file holds some YAML text, and the Zoom API answers every request with  *)
(* a status code or not at all.  The model follows the script statement by *)
(* statement and records what leaves the process: the HTTP requests, the   *)
(* seconds slept and the exit code.                                        *)
(***************************************************************************)
EXTENDS Integers, Sequences, FiniteSets, TLC

(***************************************************************************)
(* Bounds of the explored inputs.                                          *)
(***************************************************************************)
MaxAccounts == 2
MaxWids == 2

\* Webinar ids and bearer tokens a configuration file is written with.
WebinarIds == <<"111", "222", "333">>
Tokens == <<"tokenA", "tokenB">>
\* Status codes the remote API answers with; 204 is its success.
StatusCodes == {204, 404}

(***************************************************************************)
(* Python and YAML values.                                                 *)
(***************************************************************************)
\* A value loaded from YAML that app.py iterates: a list or None.
PyNone == [tag |-> "null", items |-> <<>>]
PyList(s) == [tag |-> "seq", items |-> s]

\* The `choices` of the positional argument `op`.
Choices ==
    {"update-registration-question", "update-email-setting",
     "create-poll", "update-qa-setting"}

ZOOM_API_BASE_URL == "https://api.zoom.us/v2"

SLEEP_SECONDS == 5

(***************************************************************************)
(* class Account                                                           *)
(***************************************************************************)
Account(token, webinar_ids) == [token |-> token, webinar_ids |-> webinar_ids]

\* A mutation of headers: the token without its scheme.
headers_without_scheme(self) ==
    ("authorization" :> self.token) @@ ("content-type" :> "application/json")

headers(self) ==
    ("authorization" :> "Bearer " \o self.token)
    @@ ("content-type" :> "application/json")

\* yaml.load(content): the text is modelled by the document it denotes;
\* text that is not YAML makes the loader raise.
yaml_load(content) ==
    IF content.tag = "invalid"
    THEN [error |-> "YAMLError", value |-> PyNone]
    ELSE [error |-> "none", value |-> [tag |-> content.tag, items |-> content.items]]

\* The loop of from_yaml_text from item k on, `accounts` built so far.
\* acc["token"] is evaluated before acc["webinar-ids"]; subscripting an item
\* that is no mapping is a TypeError, a missing key a KeyError.
RECURSIVE AppendAccounts(_, _, _)
AppendAccounts(items, k, accounts) ==
    IF k > Len(items)
    THEN [error |-> "none", accounts |-> accounts]
    ELSE LET acc == items[k] IN
         IF acc.tag # "map"
         THEN [error |-> "TypeError", accounts |-> <<>>]
         ELSE IF "token" \notin DOMAIN acc.entries
         THEN [error |-> "KeyError: 'token'", accounts |-> <<>>]
         ELSE IF "webinar-ids" \notin DOMAIN acc.entries
         THEN [error |-> "KeyError: 'webinar-ids'", accounts |-> <<>>]
         ELSE AppendAccounts(items, k + 1,
                  Append(accounts,
                         Account(acc.entries["token"], acc.entries["webinar-ids"])))

\* The accounts of the records that have both keys, the others left out.
RECURSIVE AccountsOfGoodRecords(_)
AccountsOfGoodRecords(items) ==
    IF Len(items) = 0
    THEN <<>>
    ELSE LET acc == items[1] IN
         IF acc.tag = "map" /\ {"token", "webinar-ids"} \subseteq DOMAIN acc.entries
         THEN <<Account(acc.entries["token"], acc.entries["webinar-ids"])>>
              \o AccountsOfGoodRecords(Tail(items))
         ELSE AccountsOfGoodRecords(Tail(items))

\* A mutation of from_yaml_text: a record that cannot be read is skipped.
from_yaml_text_skipping(content) ==
    LET res == yaml_load(content) IN
    IF res.error # "none"
    THEN [error |-> res.error, accounts |-> <<>>]
    ELSE IF res.value.tag # "seq"
    THEN [error |-> "TypeError", accounts |-> <<>>]
    ELSE [error |-> "none", accounts |-> AccountsOfGoodRecords(res.value.items)]

\* A mutation of from_yaml_text: every failure is wrapped in one error type.
from_yaml_text_wrapping(content) ==
    LET res == yaml_load(content) IN
    IF res.error # "none" \/ res.value.tag # "seq"
    THEN [error |-> "ConfigurationError", accounts |-> <<>>]
    ELSE LET got == AppendAccounts(res.value.items, 1, <<>>) IN
         IF got.error # "none"
         THEN [error |-> "ConfigurationError", accounts |-> <<>>]
         ELSE got

from_yaml_text(content) ==
    LET res == yaml_load(content) IN
    IF res.error # "none"
    THEN [error |-> res.error, accounts |-> <<>>]
    ELSE IF res.value.tag # "seq"
    THEN [error |-> "TypeError", accounts |-> <<>>]
    ELSE AppendAccounts(res.value.items, 1, <<>>)

(***************************************************************************)
(* The operation functions: the payload and the URL of each.               *)
(***************************************************************************)
update_cots2021_registration_questions_payload ==
    [questions |->
        << [field_name |-> "last_name", required |-> TRUE],
           [field_name |-> "org", required |-> TRUE],
           [field_name |-> "job_title", required |-> TRUE] >>,
     custom_questions |->
        << [title |-> "Where do you learn about COTS 2021?",
            type |-> "multiple",
            required |-> TRUE,
            answers |-> <<"Facebook", "Instagram", "Twitter", "Email",
                          "Newsletters", "Friends", "Other">>] >>]

update_cots2021_registration_questions_url(wid) ==
    <<ZOOM_API_BASE_URL, "/webinars/", wid, "/registrants/questions">>

update_cots20201_email_settings_payload ==
    [settings |->
        [attendees_and_panelists_reminder_email_notification |->
            [enable |-> TRUE, type |-> 7]]]

update_cots20201_email_settings_url(wid) ==
    <<ZOOM_API_BASE_URL, "/webinars/", wid>>

update_qa_payload ==
    [settings |->
        [question_and_answer |->
            [enable |-> TRUE,
             allow_anonymous_questions |-> FALSE,
             answer_questions |-> "all",
             attendees_can_upvote |-> TRUE,
             attendees_can_comment |-> TRUE]]]

update_qa_url(wid) ==
    <<ZOOM_API_BASE_URL, "/webinars/", wid>>

\* create_poll is defined by the module and called from nowhere.
create_poll_payload ==
    [title |-> "Where are you attending this panel from?",
     anonymous |-> FALSE,
     poll_type |-> 1,
     questions |-> << [name |-> "", type |-> "single", answers |-> <<"A", "B">>] >>]

create_poll_url(wid) ==
    <<ZOOM_API_BASE_URL, "/webinars/", wid, "/polls">>

\* A mutation of LoopBody: the create-poll branch calls create_poll.
LoopBodyPollWired(args_op) ==
    CASE args_op = "update-registration-question" -> "update_cots2021_registration_questions"
      [] args_op = "update-email-setting" -> "update_cots20201_email_settings"
      [] args_op = "create-poll" -> "create_poll"
      [] args_op = "update-qa-setting" -> "update_qa"

\* The body of the loop `for acc in accounts` in the branch taken for args.op.
LoopBody(args_op) ==
    CASE args_op = "update-registration-question" -> "update_cots2021_registration_questions"
      [] args_op = "update-email-setting" -> "update_cots20201_email_settings"
      [] args_op = "create-poll" -> "pass"
      [] args_op = "update-qa-setting" -> "update_qa"

\* A mutation of PatchCall: update_qa sends the payload of the function
\* it was copied from.
PatchCallCopiedPayload(fn, account, wid) ==
    CASE fn = "update_cots2021_registration_questions" ->
            [method |-> "PATCH",
             url |-> update_cots2021_registration_questions_url(wid),
             json |-> update_cots2021_registration_questions_payload,
             headers |-> headers(account)]
      [] fn = "update_cots20201_email_settings" ->
            [method |-> "PATCH",
             url |-> update_cots20201_email_settings_url(wid),
             json |-> update_cots20201_email_settings_payload,
             headers |-> headers(account)]
      [] fn = "update_qa" ->
            [method |-> "PATCH",
             url |-> update_qa_url(wid),
             json |-> update_cots20201_email_settings_payload,
             headers |-> headers(account)]
      [] fn = "create_poll" ->
            [method |-> "PATCH",
             url |-> create_poll_url(wid),
             json |-> create_poll_payload,
             headers |-> headers(account)]

\* requests.patch(url, json=payload, headers=account.headers) as written in
\* the operation function `fn`, for webinar id `wid` of `account`.
PatchCall(fn, account, wid) ==
    CASE fn = "update_cots2021_registration_questions" ->
            [method |-> "PATCH",
             url |-> update_cots2021_registration_questions_url(wid),
             json |-> update_cots2021_registration_questions_payload,
             headers |-> headers(account)]
      [] fn = "update_cots20201_email_settings" ->
            [method |-> "PATCH",
             url |-> update_cots20201_email_settings_url(wid),
             json |-> update_cots20201_email_settings_payload,
             headers |-> headers(account)]
      [] fn = "update_qa" ->
            [method |-> "PATCH",
             url |-> update_qa_url(wid),
             json |-> update_qa_payload,
             headers |-> headers(account)]
      [] fn = "create_poll" ->
            [method |-> "PATCH",
             url |-> create_poll_url(wid),
             json |-> create_poll_payload,
             headers |-> headers(account)]

(***************************************************************************)
(* The configuration files explored.                                       *)
(***************************************************************************)
\* The id lists a record is written with: runs of consecutive WebinarIds.
IdLists ==
    {<<>>} \cup
    { SubSeq(WebinarIds, p[1], p[2]) :
        p \in { q \in (1..Len(WebinarIds)) \X (1..Len(WebinarIds)) :
                  q[1] <= q[2] /\ q[2] - q[1] + 1 <= MaxWids } }

TokenAt(i) == Tokens[((i - 1) % Len(Tokens)) + 1]

\* The mappings the i-th record of a file can be: each key present or not.
EntriesAt(i) ==
    { tok @@ ids :
        tok \in {<<>>, "token" :> TokenAt(i)},
        ids \in {<<>>} \cup
                { "webinar-ids" :> v : v \in {PyNone} \cup { PyList(l) : l \in IdLists } } }

RecordsAt(i) ==
    { [tag |-> "map", entries |-> e] : e \in EntriesAt(i) }
    \cup { [tag |-> "scalar", entries |-> <<>>] }

AllRecords == UNION { RecordsAt(i) : i \in 1..MaxAccounts }

Documents ==
    UNION { { PyList(f) : f \in { g \in [1..n -> AllRecords] :
                                     \A i \in 1..n : g[i] \in RecordsAt(i) } } :
            n \in 0..MaxAccounts }

\* The texts config.yaml can hold: not YAML, the empty document, a list.
Contents ==
    {[tag |-> "invalid", items |-> <<>>], PyNone} \cup Documents

NoFile == [tag |-> "nofile", items |-> <<>>]

(***************************************************************************)
(* The state of one run.                                                   *)
(***************************************************************************)
VARIABLES
    op,             \* args.op
    config_exists,  \* whether Path(args.config) exists
    file,           \* the text of the file at that path
    pc,             \* the statement the script is at
    content,        \* the text read from the file, NoFile before
    accounts,       \* the list from_yaml_text returned
    fn,             \* the body of the loop over the accounts
    acc,            \* position of `for acc in accounts`
    wid,            \* position of `for wid in account.webinar_ids`
    requests,       \* the HTTP requests sent, with the time each was sent at
    responses,      \* the responses received, whose status codes are printed
    clock,          \* seconds spent in sleep()
    exception,      \* the uncaught exception that ended the run, or "none"
    exit_code       \* the exit status, meaningful once pc = "exited"

vars ==
    <<op, config_exists, file, pc, content, accounts, fn, acc, wid,
      requests, responses, clock, exception, exit_code>>

Init ==
    /\ op \in Choices
    /\ \/ config_exists = TRUE /\ file \in Contents
       \/ config_exists = FALSE /\ file = NoFile
    /\ pc = "check_config"
    /\ content = NoFile
    /\ accounts = <<>>
    /\ fn = "none"
    /\ acc = 1
    /\ wid = 1
    /\ requests = <<>>
    /\ responses = <<>>
    /\ clock = 0
    /\ exception = "none"
    /\ exit_code = 0

\* An uncaught exception: the interpreter prints the traceback and exits 1.
Raise(e) ==
    /\ exception' = e
    /\ exit_code' = 1
    /\ pc' = "exited"

\* A mutation of CheckConfigPath: the message is printed and the script
\* goes on.
CheckConfigPathNoExit ==
    /\ pc = "check_config"
    /\ pc' = "read"
    /\ UNCHANGED <<op, config_exists, file, content, accounts, fn, acc, wid,
                   requests, responses, clock, exception, exit_code>>

\* if not config_path.exists(): print(...); sys.exit(1)
CheckConfigPath ==
    /\ pc = "check_config"
    /\ IF ~config_exists
       THEN /\ exit_code' = 1
            /\ pc' = "exited"
       ELSE /\ pc' = "read"
            /\ UNCHANGED exit_code
    /\ UNCHANGED <<op, config_exists, file, content, accounts, fn, acc, wid,
                   requests, responses, clock, exception>>

\* with open(str(config_path), "r") as f: content = f.read()
ReadConfig ==
    /\ pc = "read"
    /\ content' = file
    /\ pc' = "parse"
    /\ UNCHANGED <<op, config_exists, file, accounts, fn, acc, wid,
                   requests, responses, clock, exception, exit_code>>

\* accounts = Account.from_yaml_text(content); print("Found {} account(s)")
LoadAccounts ==
    /\ pc = "parse"
    /\ LET got == from_yaml_text(content) IN
       IF got.error # "none"
       THEN /\ Raise(got.error)
            /\ UNCHANGED accounts
       ELSE /\ accounts' = got.accounts
            /\ pc' = "dispatch"
            /\ UNCHANGED <<exception, exit_code>>
    /\ UNCHANGED <<op, config_exists, file, content, fn, acc, wid,
                   requests, responses, clock>>

\* The if / elif chain on args.op, up to the start of its loop.
Dispatch ==
    /\ pc = "dispatch"
    /\ fn' = LoopBody(op)
    /\ acc' = 1
    /\ pc' = "for_acc"
    /\ UNCHANGED <<op, config_exists, file, content, accounts, wid,
                   requests, responses, clock, exception, exit_code>>

\* `for acc in accounts` with a next account: call the operation function.
CallOperation ==
    /\ pc = "for_acc"
    /\ acc <= Len(accounts)
    /\ fn # "pass"
    /\ wid' = 1
    /\ pc' = "for_wid"
    /\ UNCHANGED <<op, config_exists, file, content, accounts, fn, acc,
                   requests, responses, clock, exception, exit_code>>

\* The create-poll branch: `for acc in accounts: pass`.
PassAccount ==
    /\ pc = "for_acc"
    /\ acc <= Len(accounts)
    /\ fn = "pass"
    /\ acc' = acc + 1
    /\ UNCHANGED <<op, config_exists, file, pc, content, accounts, fn, wid,
                   requests, responses, clock, exception, exit_code>>

\* The loop over the accounts is exhausted: the script ends, exit status 0.
Finish ==
    /\ pc = "for_acc"
    /\ acc > Len(accounts)
    /\ exit_code' = 0
    /\ pc' = "exited"
    /\ UNCHANGED <<op, config_exists, file, content, accounts, fn, acc, wid,
                   requests, responses, clock, exception>>

\* `for wid in account.webinar_ids` when the value is no list.
WebinarIdsNotIterable ==
    /\ pc = "for_wid"
    /\ accounts[acc].webinar_ids.tag # "seq"
    /\ Raise("TypeError")
    /\ UNCHANGED <<op, config_exists, file, content, accounts, fn, acc, wid,
                   requests, responses, clock>>

\* `for wid in account.webinar_ids` with a next id: print the progress line.
NextWebinarId ==
    /\ pc = "for_wid"
    /\ accounts[acc].webinar_ids.tag = "seq"
    /\ wid <= Len(accounts[acc].webinar_ids.items)
    /\ pc' = "patch"
    /\ UNCHANGED <<op, config_exists, file, content, accounts, fn, acc, wid,
                   requests, responses, clock, exception, exit_code>>

\* The ids of the account are exhausted: the function returns to the loop
\* over the accounts.
ReturnFromOperation ==
    /\ pc = "for_wid"
    /\ accounts[acc].webinar_ids.tag = "seq"
    /\ wid > Len(accounts[acc].webinar_ids.items)
    /\ acc' = acc + 1
    /\ pc' = "for_acc"
    /\ UNCHANGED <<op, config_exists, file, content, accounts, fn, wid,
                   requests, responses, clock, exception, exit_code>>

\* A mutation of Sent: the headers are those of the first account.
SentWithFirstHeaders ==
    [call |-> [PatchCall(fn, accounts[acc], accounts[acc].webinar_ids.items[wid])
                 EXCEPT !.headers = headers(accounts[1])],
     at |-> clock]

\* The request as it leaves the process, stamped with the time slept so far.
Sent ==
    [call |-> PatchCall(fn, accounts[acc], accounts[acc].webinar_ids.items[wid]),
     at |-> clock]

\* A mutation of AfterResponse: res.raise_for_status() before the sleep.
AfterResponseRaiseForStatus(status_code) ==
    IF status_code >= 400 THEN "HTTPError" ELSE "sleep"

\* What follows `res = requests.patch(...)` when a response came back:
\* print(res.status_code), then sleep(5), whatever the code.
AfterResponse(status_code) == "sleep"

\* res = requests.patch(...) answered; print(res.status_code).
PatchResponse ==
    /\ pc = "patch"
    /\ \E status_code \in StatusCodes :
          /\ requests' = Append(requests, Sent)
          /\ responses' = Append(responses,
                 [request |-> Len(requests) + 1, status_code |-> status_code])
          /\ IF AfterResponse(status_code) = "sleep"
             THEN /\ pc' = "sleep"
                  /\ UNCHANGED <<exception, exit_code>>
             ELSE Raise(AfterResponse(status_code))
    /\ UNCHANGED <<op, config_exists, file, content, accounts, fn, acc, wid, clock>>

\* A mutation of PatchTransportError: the exception is caught and the loop
\* goes on with the next id.
PatchTransportErrorCaught ==
    /\ pc = "patch"
    /\ requests' = Append(requests, Sent)
    /\ wid' = wid + 1
    /\ pc' = "for_wid"
    /\ UNCHANGED <<op, config_exists, file, content, accounts, fn, acc,
                   responses, clock, exception, exit_code>>

\* requests.patch(...) raised: no response; nothing in the script catches it.
PatchTransportError ==
    /\ pc = "patch"
    /\ requests' = Append(requests, Sent)
    /\ Raise("ConnectionError")
    /\ UNCHANGED <<op, config_exists, file, content, accounts, fn, acc, wid,
                   responses, clock>>

\* A mutation of Sleep: the function returns after its first sleep.
SleepThenReturn ==
    /\ pc = "sleep"
    /\ clock' = clock + SLEEP_SECONDS
    /\ wid' = Len(accounts[acc].webinar_ids.items) + 1
    /\ pc' = "for_wid"
    /\ UNCHANGED <<op, config_exists, file, content, accounts, fn, acc,
                   requests, responses, exception, exit_code>>

\* A mutation of Sleep: the delay is a backoff, taken after a failure only.
SleepAfterFailureOnly ==
    /\ pc = "sleep"
    /\ clock' = IF responses[Len(responses)].status_code >= 400
                THEN clock + SLEEP_SECONDS
                ELSE clock
    /\ wid' = wid + 1
    /\ pc' = "for_wid"
    /\ UNCHANGED <<op, config_exists, file, content, accounts, fn, acc,
                   requests, responses, exception, exit_code>>

\* sleep(5), then the next turn of the loop over the ids.
Sleep ==
    /\ pc = "sleep"
    /\ clock' = clock + SLEEP_SECONDS
    /\ wid' = wid + 1
    /\ pc' = "for_wid"
    /\ UNCHANGED <<op, config_exists, file, content, accounts, fn, acc,
                   requests, responses, exception, exit_code>>

Next ==
    \/ CheckConfigPath
    \/ ReadConfig
    \/ LoadAccounts
    \/ Dispatch
    \/ CallOperation
    \/ PassAccount
    \/ Finish
    \/ WebinarIdsNotIterable
    \/ NextWebinarId
    \/ ReturnFromOperation
    \/ PatchResponse
    \/ PatchTransportError
    \/ Sleep

Spec == Init /\ [][Next]_vars

(***************************************************************************)
(* What the configuration file says, read off the file itself.             *)
(***************************************************************************)
\* The record is a mapping that has both keys.
HasBothKeys(r) ==
    r.tag = "map" /\ {"token", "webinar-ids"} \subseteq DOMAIN r.entries

\* The text is a list of mappings that have both keys.
Loadable(text) ==
    /\ text.tag = "seq"
    /\ \A i \in 1..Len(text.items) : HasBothKeys(text.items[i])

\* Loadable, and every webinar-ids is a list.
WellFormed(text) ==
    /\ Loadable(text)
    /\ \A i \in 1..Len(text.items) :
          text.items[i].entries["webinar-ids"].tag = "seq"

\* The (token, webinar id) pairs of the records in file order, up to the
\* first record whose webinar-ids is no list.
RECURSIVE Targets(_)
Targets(items) ==
    IF Len(items) = 0
    THEN <<>>
    ELSE LET ids == items[1].entries["webinar-ids"] IN
         IF ids.tag # "seq"
         THEN <<>>
         ELSE [i \in 1..Len(ids.items) |->
                  [token |-> items[1].entries["token"], wid |-> ids.items[i]]]
              \o Targets(Tail(items))

Wired == op \in {"update-registration-question", "update-email-setting",
                 "update-qa-setting"}

\* The webinar ids a URL holds among its pieces.
IdsIn(url) == { i \in 1..Len(url) : \E j \in 1..Len(WebinarIds) : url[i] = WebinarIds[j] }

Success(status_code) == status_code >= 200 /\ status_code < 300

(***************************************************************************)
(* C1.  A wired operation on a well-formed configuration sends its         *)
(* requests in file order: the k-th request goes to the k-th webinar id of *)
(* the concatenation of the records' id lists, its URL holds that id and   *)
(* no other, and a run in which every request was answered ends having     *)
(* sent exactly one request per id.                                        *)
(***************************************************************************)
C1_RequestsFollowFileOrder ==
    (config_exists /\ WellFormed(file) /\ Wired) =>
        LET expected == Targets(file.items) IN
        /\ Len(requests) <= Len(expected)
        /\ \A k \in 1..Len(requests) :
              /\ IdsIn(requests[k].call.url) = {3}
              /\ requests[k].call.url[3] = expected[k].wid
        /\ (pc = "exited" /\ Len(responses) = Len(requests))
              => Len(requests) = Len(expected)

C1_Witness ==
    /\ Wired
    /\ config_exists
    /\ WellFormed(file)
    /\ pc = "exited"
    /\ Len(file.items) = 2
    /\ Len(file.items[1].entries["webinar-ids"].items) = 2
    /\ Len(requests) = 3
    /\ Len(responses) = 3

(***************************************************************************)
(* C2.  When the configuration path does not exist, whatever the           *)
(* operation, the file is never read, nothing is parsed, no request is     *)
(* sent, and the run ends with exit code 1.                                *)
(***************************************************************************)
C2_MissingConfigExitsOne ==
    ~config_exists =>
        /\ content = NoFile
        /\ accounts = <<>>
        /\ requests = <<>>
        /\ clock = 0
        /\ pc \in {"check_config", "exited"}
        /\ pc = "exited" => (exit_code = 1 /\ exception = "none")

C2_Witness ==
    ~config_exists /\ pc = "exited" /\ exit_code = 1 /\ op = "update-qa-setting"

(***************************************************************************)
(* C3.  A non-success status code stops nothing.  On a well-formed         *)
(* configuration a wired run raises no exception other than a transport    *)
(* failure; a run that ended without one ends with exit code 0, has a      *)
(* response for every id the file lists, and after each non-success        *)
(* response to the j-th id it has sent the request for the (j+1)-th id.    *)
(***************************************************************************)
C3_ErrorStatusIsNotFatal ==
    (config_exists /\ WellFormed(file) /\ Wired) =>
        LET expected == Targets(file.items) IN
        /\ exception \in {"none", "ConnectionError"}
        /\ (pc = "exited" /\ exception = "none") =>
              /\ exit_code = 0
              /\ Len(responses) = Len(expected)
              /\ \A j \in 1..Len(responses) :
                    (~Success(responses[j].status_code) /\ j < Len(expected))
                        => /\ Len(requests) > j
                           /\ requests[j + 1].call.url[3] = expected[j + 1].wid

C3_Witness ==
    /\ Wired
    /\ pc = "exited"
    /\ exit_code = 0
    /\ Len(responses) >= 2
    /\ ~Success(responses[1].status_code)
    /\ Len(requests) >= 2

(***************************************************************************)
(* C4.  A request without a response ends the run: it is the last request  *)
(* sent, every earlier request was answered, no sleep follows it, the      *)
(* uncaught ConnectionError ends the process with a non-zero exit code.    *)
(***************************************************************************)
C4_TransportErrorAborts ==
    /\ \A k \in 1..Len(responses) : responses[k].request = k
    /\ Len(requests) > Len(responses) =>
          /\ Len(requests) = Len(responses) + 1
          /\ pc = "exited"
          /\ exception = "ConnectionError"
          /\ exit_code # 0
          /\ clock = 5 * Len(responses)

C4_Witness ==
    /\ exception = "ConnectionError"
    /\ pc = "exited"
    /\ Len(requests) = 1
    /\ WellFormed(file)
    /\ Len(Targets(file.items)) >= 3
    /\ Len(accounts) = 2

(***************************************************************************)
(* C5.  create-poll on an existing, well-formed configuration sends no     *)
(* request and never sleeps, and ends with exit code 0.                    *)
(***************************************************************************)
C5_CreatePollIsInert ==
    (op = "create-poll" /\ config_exists /\ WellFormed(file)) =>
        /\ requests = <<>>
        /\ responses = <<>>
        /\ clock = 0
        /\ exception = "none"
        /\ pc = "exited" => exit_code = 0

C5_Witness ==
    /\ op = "create-poll"
    /\ pc = "exited"
    /\ exit_code = 0
    /\ Len(accounts) = 2
    /\ WellFormed(file)
    /\ Len(Targets(file.items)) >= 3

(***************************************************************************)
(* C6.  Every response, whatever its status code, is followed by exactly   *)
(* one sleep of 5 seconds before the next request or the end of the run:   *)
(* the k-th request is sent after exactly k - 1 sleeps, and outside the    *)
(* moment between a response and its sleep the time slept is 5 seconds per *)
(* response received.                                                      *)
(***************************************************************************)
C6_OneSleepPerResponse ==
    /\ \A k \in 1..Len(requests) : requests[k].at = 5 * (k - 1)
    /\ pc # "sleep" => clock = 5 * Len(responses)
    /\ pc = "sleep" => clock = 5 * (Len(responses) - 1)

C6_Witness ==
    /\ pc = "exited"
    /\ exception = "none"
    /\ Len(accounts) = 2
    /\ Len(responses) = 3
    /\ ~Success(responses[1].status_code)
    /\ Success(responses[2].status_code)
    /\ ~Success(responses[3].status_code)
    /\ clock = 15

(***************************************************************************)
(* C7.  As claimed: a text that is no list of records with both keys makes *)
(* the factory fail with a ConfigurationError.                             *)
(***************************************************************************)
C7_FailsWithConfigurationError ==
    (pc = "exited" /\ content # NoFile /\ ~Loadable(content))
        => exception = "ConfigurationError"

\* The index of the first record that cannot be turned into an Account.
FirstUnreadable(items) ==
    CHOOSE i \in 1..Len(items) :
        /\ ~HasBothKeys(items[i])
        /\ \A j \in 1..(i - 1) : HasBothKeys(items[j])

\* The error the factory raises for a text that is not Loadable.
ErrorOf(text) ==
    IF text.tag = "invalid" THEN "YAMLError"
    ELSE IF text.tag = "null" THEN "TypeError"
    ELSE LET r == text.items[FirstUnreadable(text.items)] IN
         IF r.tag # "map" THEN "TypeError"
         ELSE IF "token" \notin DOMAIN r.entries THEN "KeyError: 'token'"
         ELSE "KeyError: 'webinar-ids'"

(***************************************************************************)
(* C7, amended.  The factory fails on such a text with the error of the    *)
(* statement that failed, never a ConfigurationError: the loader's         *)
(* YAMLError for text that is not YAML, a TypeError for the empty document *)
(* and for a record that is no mapping, a KeyError naming the first absent *)
(* key of the first record that lacks one; the error is uncaught and ends  *)
(* the run with exit code 1.                                               *)
(***************************************************************************)
C7_FailsWithUnderlyingError ==
    (pc \notin {"check_config", "read", "parse"}
        /\ content # NoFile /\ ~Loadable(content)) =>
        /\ pc = "exited"
        /\ exit_code = 1
        /\ exception = ErrorOf(content)
        /\ exception # "ConfigurationError"
        /\ accounts = <<>>

C7_Witness ==
    /\ pc = "exited"
    /\ exception = "KeyError: 'webinar-ids'"
    /\ Len(content.items) = 2
    /\ HasBothKeys(content.items[1])

(***************************************************************************)
(* C8.  Every request carries the headers of the account whose record      *)
(* lists its webinar id: authorization is "Bearer " followed by the token  *)
(* of that record, content-type is application/json, also when the file    *)
(* holds several accounts with different tokens.                           *)
(***************************************************************************)
C8_HeadersOfOwningAccount ==
    (config_exists /\ Loadable(file)) =>
        LET expected == Targets(file.items) IN
        \A k \in 1..Len(requests) :
            /\ k <= Len(expected)
            /\ DOMAIN requests[k].call.headers = {"authorization", "content-type"}
            /\ requests[k].call.headers["authorization"]
                  = "Bearer " \o expected[k].token
            /\ requests[k].call.headers["content-type"] = "application/json"

C8_Witness ==
    /\ Len(requests) = 2
    /\ requests[1].call.headers["authorization"] = "Bearer tokenA"
    /\ requests[2].call.headers["authorization"] = "Bearer tokenB"
    /\ requests[1].call.url[3] = requests[2].call.url[3]

\* The request line and body section 4.2 of the specification documents.
DocumentedPath(o, url) ==
    /\ url[1] = "https://api.zoom.us/v2"
    /\ url[2] = "/webinars/"
    /\ IF o = "update-registration-question"
       THEN Len(url) = 4 /\ url[4] = "/registrants/questions"
       ELSE Len(url) = 3

DocumentedBody(o, body) ==
    CASE o = "update-registration-question" ->
            /\ DOMAIN body = {"questions", "custom_questions"}
            /\ [i \in 1..Len(body.questions) |-> body.questions[i].field_name]
                  = <<"last_name", "org", "job_title">>
            /\ \A i \in 1..Len(body.questions) : body.questions[i].required
            /\ Len(body.custom_questions) = 1
            /\ body.custom_questions[1].type = "multiple"
            /\ body.custom_questions[1].required
            /\ Len(body.custom_questions[1].answers) = 7
      [] o = "update-email-setting" ->
            body = [settings |->
                      [attendees_and_panelists_reminder_email_notification |->
                          [enable |-> TRUE, type |-> 7]]]
      [] o = "update-qa-setting" ->
            body = [settings |->
                      [question_and_answer |->
                          [enable |-> TRUE,
                           allow_anonymous_questions |-> FALSE,
                           answer_questions |-> "all",
                           attendees_can_upvote |-> TRUE,
                           attendees_can_comment |-> TRUE]]]
      [] OTHER -> FALSE

(***************************************************************************)
(* C9.  Every request of a run is a PATCH to the path of the operation     *)
(* named on the command line, with the body documented for it; the body is *)
(* the same for every webinar id and every account of the run.             *)
(***************************************************************************)
C9_OnePathAndBodyPerRun ==
    \A k \in 1..Len(requests) :
        /\ requests[k].call.method = "PATCH"
        /\ DocumentedPath(op, requests[k].call.url)
        /\ DocumentedBody(op, requests[k].call.json)
        /\ requests[k].call.json = requests[1].call.json

C9_Witness ==
    /\ op = "update-qa-setting"
    /\ Len(requests) = 3
    /\ requests[1].call.headers # requests[3].call.headers
    /\ requests[1].call.url # requests[2].call.url

(***************************************************************************)
(* C10.  Parsing ends before any request: when some record of the          *)
(* configuration lacks token or webinar-ids, no request is ever sent and   *)
(* no account is kept, not even for well-formed records before it, and the *)
(* run ends with an uncaught error.                                        *)
(***************************************************************************)
C10_MalformedRecordMeansNoRequest ==
    (config_exists /\ file.tag = "seq"
        /\ \E i \in 1..Len(file.items) :
              /\ file.items[i].tag = "map"
              /\ ~HasBothKeys(file.items[i])) =>
        /\ requests = <<>>
        /\ clock = 0
        /\ accounts = <<>>
        /\ pc \in {"check_config", "read", "parse", "exited"}
        /\ pc = "exited" => (exit_code = 1 /\ exception # "none")

C10_Witness ==
    /\ Wired
    /\ pc = "exited"
    /\ exception = "KeyError: 'token'"
    /\ Len(file.items) = 2
    /\ HasBothKeys(file.items[1])
    /\ file.items[1].entries["webinar-ids"].tag = "seq"
    /\ Len(file.items[1].entries["webinar-ids"].items) = 2

====
